---- MODULE Spec2Model ----
\* RSS search pipeline of src/src/main.py: an orchestrator (main under the Actor
\* runtime, local_test under argparse) fans out one parse_one_feed task per feed
\* URL, waits on asyncio.gather, and ranks the gathered entries in process_results.
EXTENDS Integers, Sequences, FiniteSets, TLC

VARIABLES
    mode,            \* which orchestrator runs: "main" or "local_test"
    actor_input,     \* the job input / command line: query and feeds
    top_n,           \* the orchestrator's top_n
    recency_exponent,\* the orchestrator's recency_exponent
    pc,              \* position of the orchestrator
    now,             \* the UTC clock, in whole seconds
    status_message,  \* messages given to Actor.set_status_message, in order
    warnings,        \* feed URLs for which Actor.log.warning was called
    tpc,             \* position of each parse_one_feed task
    proxy,           \* the proxy argument / local of each task
    proxy_calls,     \* calls made to the proxy collaborator, per task
    http_requests,   \* session.get calls issued, per task
    session,         \* the aiohttp.ClientSession of each task
    response,        \* what the network answered to each task's request
    body,            \* entries of the parsed feed body of each task
    scored,          \* results of the entry tasks gathered so far, per task
    task_exc,        \* exception a task ended with
    results,         \* the orchestrator's `results` after the gather
    ranked,          \* the orchestrator's `results` after process_results
    sort_kind,       \* how the sort of this build orders equal keys
    outcome,         \* how the run ended
    pushed,          \* calls of Actor.push_data
    printed          \* calls of print

vars == << mode, actor_input, top_n, recency_exponent, pc, now, status_message, warnings, tpc, proxy,
           proxy_calls, http_requests, session, response, body, scored, task_exc,
           results, ranked, sort_kind, outcome, pushed, printed >>

\* ---------------------------------------------------------------- bounds
MaxFeeds == 2
MaxTicks == 1
MaxTopN == 1

\* ---------------------------------------------------------------- values
None == "None"

Min(a, b) == IF a <= b THEN a ELSE b
Max(a, b) == IF a >= b THEN a ELSE b

RECURSIVE GCD(_, _)
GCD(a, b) == IF b = 0 THEN a ELSE GCD(b, a % b)

\* A float is kept as an exact fraction in lowest terms with a positive denominator.
Frac(n, d) ==
    LET g == GCD(IF n < 0 THEN -n ELSE n, d)
    IN  [num |-> n \div g, den |-> d \div g]

FracMul(x, y) == Frac(x.num * y.num, x.den * y.den)
FracOfInt(n) == Frac(n, 1)
FracGt(x, y) == x.num * y.den > y.num * x.den

RECURSIVE FracPow(_, _)
FracPow(x, k) == IF k = 0 THEN FracOfInt(1) ELSE FracMul(x, FracPow(x, k - 1))

\* ---------------------------------------------------------------- inputs
\* A text is known by its similarity to the query under each matcher of thefuzz
\* (0..100 in the library; small values here).
Text(tsr, r) == [token_set_ratio |-> tsr, ratio |-> r]

\* An entry description is markup around a text.
Markup(t) == [tag |-> "p", inner |-> t]

\* feedparser entries. `keys` are the keys the entry dict has.
AllKeys == {"title", "link", "description", "published_parsed"}

EntryA == [keys |-> AllKeys, link |-> "a", title |-> Text(2, 1),
           description |-> Markup(Text(1, 0)), published_parsed |-> 2]
EntryB == [keys |-> AllKeys, link |-> "b", title |-> Text(1, 1),
           description |-> Markup(Text(2, 2)), published_parsed |-> 2]
EntryC == [keys |-> AllKeys, link |-> "c", title |-> Text(2, 2),
           description |-> Markup(Text(2, 1)), published_parsed |-> 4]
EntryD == [keys |-> AllKeys \ {"published_parsed"}, link |-> "d", title |-> Text(2, 2),
           description |-> Markup(Text(2, 2)), published_parsed |-> 0]

\* Feed bodies a server may send with status 200.
Bodies == { <<>>, <<EntryA, EntryB>>, <<EntryC>>, <<EntryD>> }

\* HTTP statuses a server may answer with.
Statuses == {200, 201, 404}

\* The clock when the run starts.
StartTimes == {3}

\* The job input (Actor.get_input) or the command line (argparse): a dict with
\* the keys it has. The value of a key it lacks is never read. top_n and
\* recency_exponent are read at lines 118-119 (139-140) and used by nothing before
\* process_results is called, so the model draws that part of the input
\* (RankInputs) where the call is made.
TopNs == -1 .. MaxTopN
RecencyExponents == {0, 1}
FeedListsUpTo(m) == { [i \in 1..n |-> i] : n \in 0..m }

InputsFrom(lists) ==
    { [ keys |-> ks,
        query |-> "q",
        feeds |-> IF "feeds" \in ks THEN f ELSE <<>>,
        method |-> "token_set_ratio" ] :
      ks \in SUBSET {"query", "feeds"}, f \in lists }

Inputs == InputsFrom(FeedListsUpTo(MaxFeeds))
\* Inputs with one feed more, for the runs that need a third feed.
InputsBatch == InputsFrom(FeedListsUpTo(MaxFeeds + 1))

\* Inputs that also name a matching strategy (input key "method", --method):
\* the two strategies and a name that is neither.
Methods == {"token_set_ratio", "ratio", "levenshtein"}

InputsMethod ==
    { [ keys |-> inp.keys \cup {"method"}, query |-> inp.query,
        feeds |-> inp.feeds, method |-> m ] :
      inp \in Inputs, m \in Methods }

RankInputs ==
    { [ keys |-> ks,
        top_n |-> IF "top_n" \in ks THEN t ELSE 0,
        recency_exponent |-> IF "recency_exponent" \in ks THEN e ELSE 0 ] :
      ks \in SUBSET {"top_n", "recency_exponent"}, t \in TopNs, e \in RecencyExponents }

\* dict.get(key, default)
Get(d, key, default) == IF key \in d.keys THEN d[key] ELSE default

\* ---------------------------------------------------------------- process_one_entry
DefaultMethod == "token_set_ratio"

\* thefuzz scores a None operand as 0.
fuzz_token_set_ratio(query, text) == IF query = None THEN 0 ELSE text.token_set_ratio
fuzz_ratio(query, text) == IF query = None THEN 0 ELSE text.ratio

match_func(method, query, text) ==
    IF method = "token_set_ratio"
    THEN fuzz_token_set_ratio(query, text)
    ELSE fuzz_ratio(query, text)

\* bs4.BeautifulSoup(...).get_text(): the text inside the markup.
get_text(description) == description.inner

\* entry[...] of a key the entry lacks raises KeyError.
EntryRaises(entry) == ~(AllKeys \subseteq entry.keys)

\* Mutant of process_one_entry: the recency ratio is taken the other way round.
process_one_entry_inverted(entry, query, method, utc_timestamp) ==
    [ title |-> entry.title,
      link |-> entry.link,
      text |-> get_text(entry.description),
      recency_score |-> Frac(utc_timestamp, entry.published_parsed),
      title_score |-> match_func(method, query, entry.title),
      description_score |-> match_func(method, query, get_text(entry.description)) ]

process_one_entry(entry, query, method, utc_timestamp) ==
    [ title |-> entry.title,
      link |-> entry.link,
      text |-> get_text(entry.description),
      recency_score |-> Frac(entry.published_parsed, utc_timestamp),
      title_score |-> match_func(method, query, entry.title),
      description_score |-> match_func(method, query, get_text(entry.description)) ]

\* ---------------------------------------------------------------- process_results
RECURSIVE Flatten(_)
\* [item for sublist in res for item in sublist if item]; every scored entry is a
\* non-empty dict, so the filter keeps all of them.
Flatten(res) == IF res = <<>> THEN <<>> ELSE Head(res) \o Flatten(Tail(res))

\* Mutant of Score: exponent 0 does not switch the recency factor off.
ScoreRecencyNeverOff(item, exponent) ==
    FracMul(FracOfInt(item.title_score * item.description_score),
            FracPow(item.recency_score, exponent + 1))

\* df["score"] = title_score * description_score, then *= recency_score ** exponent
Score(item, exponent) ==
    FracMul(FracOfInt(item.title_score * item.description_score),
            FracPow(item.recency_score, exponent))

\* Mutant of WithScore: the description score is left out of the product.
WithScoreTitleOnly(item, exponent) ==
    [ title |-> item.title, link |-> item.link, text |-> item.text,
      recency_score |-> item.recency_score, title_score |-> item.title_score,
      description_score |-> item.description_score,
      score |-> FracMul(FracOfInt(item.title_score),
                        FracPow(item.recency_score, exponent)) ]

WithScore(item, exponent) ==
    [ title |-> item.title, link |-> item.link, text |-> item.text,
      recency_score |-> item.recency_score, title_score |-> item.title_score,
      description_score |-> item.description_score,
      score |-> Score(item, exponent) ]

\* sort_values("score", ascending=False) with the default kind "quicksort", which
\* leaves the order of rows with equal keys open: a build may keep them in input
\* order or not. Both orders are modelled.
SortKinds == {"kept", "reversed"}

\* Mutant of Before: the sort is ascending.
BeforeAscending(df, kind, i, j) ==
    \/ FracGt(df[j].score, df[i].score)
    \/ /\ df[i].score = df[j].score
       /\ IF kind = "kept" THEN i < j ELSE i > j

Before(df, kind, i, j) ==
    \/ FracGt(df[i].score, df[j].score)
    \/ /\ df[i].score = df[j].score
       /\ IF kind = "kept" THEN i < j ELSE i > j

sort_values(df, kind) ==
    LET rank(i) == Cardinality({ j \in DOMAIN df : Before(df, kind, j, i) }) + 1
    IN  [ r \in DOMAIN df |-> df[CHOOSE i \in DOMAIN df : rank(i) = r] ]

\* Mutant of head: the slice is one row too long.
headOneMore(df, n) ==
    IF n >= 0 THEN SubSeq(df, 1, Min(n + 1, Len(df)))
    ELSE SubSeq(df, 1, Max(Len(df) + n, 0))

\* DataFrame.head(n) is iloc[:n]: a negative n drops the last -n rows.
head(df, n) ==
    IF n >= 0 THEN SubSeq(df, 1, Min(n, Len(df)))
    ELSE SubSeq(df, 1, Max(Len(df) + n, 0))

\* Mutant of ProcessRaises: an empty list is ranked like any other.
ProcessNeverRaises(res) == FALSE

\* lines 99 and 108: process_results raises ValueError when there is nothing to rank.
ProcessRaises(res) == Len(Flatten(res)) = 0

\* lines 100-107 on the flattened list
rank(flat, topn, exponent, kind) ==
    LET df == [ i \in DOMAIN flat |-> WithScore(flat[i], exponent) ]
    IN  head(sort_values(df, kind), Min(topn, Len(df)))

process_results(res, topn, exponent, kind) == rank(Flatten(res), topn, exponent, kind)

\* ---------------------------------------------------------------- state
StartTime == CHOOSE t \in StartTimes : TRUE

NoResponse == [error |-> FALSE, status |-> 0, read_error |-> FALSE]

InitFrom(inputs) ==
    /\ mode \in {"main", "local_test"}
    /\ actor_input \in inputs
    /\ top_n = 0
    /\ recency_exponent = 0
    /\ pc = "start"
    /\ now \in StartTimes
    /\ status_message = <<>>
    /\ warnings = {}
    /\ tpc = <<>>
    /\ proxy = <<>>
    /\ proxy_calls = <<>>
    /\ http_requests = <<>>
    /\ session = <<>>
    /\ response = <<>>
    /\ body = <<>>
    /\ scored = <<>>
    /\ task_exc = <<>>
    /\ results = <<>>
    /\ ranked = <<>>
    /\ sort_kind = "unset"
    /\ outcome = "running"
    /\ pushed = <<>>
    /\ printed = <<>>

Init == InitFrom(Inputs)
InitBatch == InitFrom(InputsBatch)
InitMethod == InitFrom(InputsMethod)

\* The orchestrator's locals, read from the input.
DefaultTopN == 10
DefaultRecencyExponentMain == 1
DefaultRecencyExponentLocal == 0

query == Get(actor_input, "query", None)
feeds == actor_input.feeds
\* args.method (line 138); main reads no such key.
method == Get(actor_input, "method", DefaultMethod)
DefaultRecencyExponent ==
    IF mode = "main" THEN DefaultRecencyExponentMain ELSE DefaultRecencyExponentLocal

Tasks == DOMAIN tpc
Finished(i) == tpc[i] \in {"returned", "raised"}

taskVars == << tpc, proxy, proxy_calls, http_requests, session, response, body,
               scored, task_exc >>
endVars == << top_n, recency_exponent, results, ranked, sort_kind, outcome, pushed, printed >>

\* ---------------------------------------------------------------- orchestrators
\* main, lines 113-119: the input is read; nothing is validated.
GetInput ==
    /\ mode = "main" /\ pc = "start"
    /\ pc' = "set_status_parsing"
    /\ UNCHANGED << mode, actor_input, now, status_message, warnings, taskVars, endVars >>

\* local_test, lines 135-141: argparse exits when a required argument is missing
\* (-f takes one or more URLs).
ParseArgs ==
    /\ mode = "local_test" /\ pc = "start"
    /\ IF {"query", "feeds"} \subseteq actor_input.keys /\ actor_input.feeds # <<>>
       THEN pc' = "spawn" /\ outcome' = outcome
       ELSE pc' = "done" /\ outcome' = "SystemExit"
    /\ UNCHANGED << mode, actor_input, now, status_message, warnings, taskVars,
                    top_n, recency_exponent, results, ranked, sort_kind, pushed, printed >>

\* main, line 121
SetStatusParsing ==
    /\ pc = "set_status_parsing"
    /\ status_message' = Append(status_message, "Parsing feeds")
    /\ pc' = "spawn"
    /\ UNCHANGED << mode, actor_input, now, warnings, taskVars, endVars >>

\* main line 122, local_test line 143: one coroutine per URL, handed to gather.
\* Iterating over feeds = None raises TypeError.
SpawnTasks ==
    /\ pc = "spawn"
    /\ IF "feeds" \notin actor_input.keys
       THEN /\ pc' = "done"
            /\ outcome' = "TypeError"
            /\ UNCHANGED taskVars
       ELSE /\ pc' = "gather"
            /\ outcome' = outcome
            /\ tpc' = [i \in DOMAIN feeds |-> "start"]
            /\ proxy' = [i \in DOMAIN feeds |-> IF mode = "main" THEN "True" ELSE None]
            /\ proxy_calls' = [i \in DOMAIN feeds |-> 0]
            /\ http_requests' = [i \in DOMAIN feeds |-> 0]
            /\ session' = [i \in DOMAIN feeds |-> "none"]
            /\ response' = [i \in DOMAIN feeds |-> NoResponse]
            /\ body' = [i \in DOMAIN feeds |-> <<>>]
            /\ scored' = [i \in DOMAIN feeds |-> <<>>]
            /\ task_exc' = [i \in DOMAIN feeds |-> None]
    /\ UNCHANGED << mode, actor_input, now, status_message, warnings,
                    top_n, recency_exponent, results, ranked, sort_kind, pushed, printed >>

\* Mutant of GatherReturn: the results come back last task first.
GatherReturnsReversed ==
    /\ pc = "gather"
    /\ \A i \in Tasks : tpc[i] = "returned"
    /\ results' = [i \in Tasks |-> scored[Len(tpc) + 1 - i]]
    /\ pc' = IF mode = "main" THEN "set_status_processing" ELSE "process"
    /\ UNCHANGED << mode, actor_input, now, status_message, warnings, taskVars,
                    top_n, recency_exponent, ranked, sort_kind, outcome, pushed, printed >>

\* Mutant of GatherReturn: the orchestrator goes on as soon as one task has
\* returned.
GatherReturnsEarly ==
    /\ pc = "gather"
    /\ \E i \in Tasks : tpc[i] = "returned"
    /\ results' = [i \in Tasks |-> scored[i]]
    /\ pc' = IF mode = "main" THEN "set_status_processing" ELSE "process"
    /\ UNCHANGED << mode, actor_input, now, status_message, warnings, taskVars,
                    top_n, recency_exponent, ranked, sort_kind, outcome, pushed, printed >>

\* asyncio.gather(*parse_tasks), lines 123 and 144, when every task has returned:
\* the results come back in the order of the tasks.
GatherReturn ==
    /\ pc = "gather"
    /\ \A i \in Tasks : tpc[i] = "returned"
    /\ results' = [i \in Tasks |-> scored[i]]
    /\ pc' = IF mode = "main" THEN "set_status_processing" ELSE "process"
    /\ UNCHANGED << mode, actor_input, now, status_message, warnings, taskVars,
                    top_n, recency_exponent, ranked, sort_kind, outcome, pushed, printed >>

\* asyncio.gather without return_exceptions: the exception of a task is raised to
\* the awaiting orchestrator as soon as that task has raised; the other tasks are
\* left as they are. Nothing in main or local_test catches it.
GatherRaise ==
    /\ pc = "gather"
    /\ \E i \in Tasks :
        /\ tpc[i] = "raised"
        /\ outcome' = task_exc[i]
    /\ pc' = "done"
    /\ UNCHANGED << mode, actor_input, now, status_message, warnings, taskVars,
                    top_n, recency_exponent, results, ranked, sort_kind, pushed, printed >>

\* main, line 124
SetStatusProcessing ==
    /\ pc = "set_status_processing"
    /\ status_message' = Append(status_message, "Processing results")
    /\ pc' = "process"
    /\ UNCHANGED << mode, actor_input, now, warnings, taskVars, endVars >>

\* main lines 126-130, local_test lines 146-150, with top_n and recency_exponent
\* as lines 118-119 (139-140) read them from the input.
ProcessResults ==
    /\ pc = "process"
    /\ \E inp \in RankInputs :
        /\ top_n' = Get(inp, "top_n", DefaultTopN)
        /\ recency_exponent' = Get(inp, "recency_exponent", DefaultRecencyExponent)
    /\ IF ProcessRaises(results)
       THEN /\ outcome' = "ValueError"
            /\ pc' = "done"
            /\ UNCHANGED << ranked, sort_kind >>
       ELSE /\ \E kind \in SortKinds :
                /\ sort_kind' = kind
                /\ ranked' = process_results(results, top_n', recency_exponent', kind)
            /\ pc' = IF mode = "main" THEN "push" ELSE "print"
            /\ outcome' = outcome
    /\ UNCHANGED << mode, actor_input, now, status_message, warnings, taskVars,
                    results, pushed, printed >>

\* main, line 131
PushData ==
    /\ pc = "push"
    /\ pushed' = Append(pushed, ranked)
    /\ outcome' = "ok"
    /\ pc' = "done"
    /\ UNCHANGED << mode, actor_input, now, status_message, warnings, taskVars,
                    top_n, recency_exponent, results, ranked, sort_kind, printed >>

\* local_test, line 151
PrintResults ==
    /\ pc = "print"
    /\ printed' = Append(printed, ranked)
    /\ outcome' = "ok"
    /\ pc' = "done"
    /\ UNCHANGED << mode, actor_input, now, status_message, warnings, taskVars,
                    top_n, recency_exponent, results, ranked, sort_kind, pushed >>

\* When the orchestrator has ended with tasks still pending, the event loop is
\* shut down: the pending tasks are cancelled, and each `async with` closes its
\* session on the way out.
Teardown ==
    /\ pc = "done"
    /\ \E i \in Tasks : ~Finished(i) /\ tpc[i] # "cancelled"
    /\ tpc' = [i \in Tasks |-> IF Finished(i) THEN tpc[i] ELSE "cancelled"]
    /\ session' = [i \in Tasks |-> IF session[i] = "open" THEN "closed" ELSE session[i]]
    /\ UNCHANGED << mode, actor_input, pc, now, status_message, warnings, proxy,
                    proxy_calls, http_requests, response, body, scored, task_exc,
                    endVars >>

\* ---------------------------------------------------------------- parse_one_feed
orchVars == << mode, actor_input, pc, now, status_message, endVars >>

\* proxy_configuration.new_url() (line 68): every call returns a URL of its own;
\* the URL is named after the task whose call returned it.
ProxyUrls == << "proxy_url_1", "proxy_url_2", "proxy_url_3", "proxy_url_4", "proxy_url_5" >>
new_url(i) == ProxyUrls[i]

\* lines 66-68: with a truthy proxy argument, a proxy URL is asked for.
AcquireProxy(i) ==
    /\ pc = "gather" /\ tpc[i] = "start" /\ proxy[i] # None
    /\ proxy_calls' = [proxy_calls EXCEPT ![i] = @ + 1]
    /\ proxy' = [proxy EXCEPT ![i] = new_url(i)]
    /\ tpc' = [tpc EXCEPT ![i] = "connect"]
    /\ UNCHANGED << orchVars, warnings, http_requests, session, response, body,
                    scored, task_exc >>

\* Mutant of Request: the request does not wait for the proxy URL.
RequestSkipsProxy(i) ==
    /\ pc = "gather"
    /\ tpc[i] \in {"start", "connect"}
    /\ session' = [session EXCEPT ![i] = "open"]
    /\ http_requests' = [http_requests EXCEPT ![i] = @ + 1]
    /\ tpc' = [tpc EXCEPT ![i] = "await_response"]
    /\ UNCHANGED << orchVars, warnings, proxy, proxy_calls, response, body, scored,
                    task_exc >>

\* lines 69-70: the session is opened and the GET request is issued.
Request(i) ==
    /\ pc = "gather"
    /\ \/ tpc[i] = "start" /\ proxy[i] = None
       \/ tpc[i] = "connect"
    /\ session' = [session EXCEPT ![i] = "open"]
    /\ http_requests' = [http_requests EXCEPT ![i] = @ + 1]
    /\ tpc' = [tpc EXCEPT ![i] = "await_response"]
    /\ UNCHANGED << orchVars, warnings, proxy, proxy_calls, response, body, scored,
                    task_exc >>

\* line 70, the request fails (connection refused, timeout, DNS): the exception
\* leaves both `async with` blocks and parse_one_feed, which catches nothing.
RequestFails(i) ==
    /\ pc = "gather" /\ tpc[i] = "await_response"
    /\ response' = [response EXCEPT ![i] = [@ EXCEPT !.error = TRUE]]
    /\ session' = [session EXCEPT ![i] = "closed"]
    /\ task_exc' = [task_exc EXCEPT ![i] = "ClientError"]
    /\ tpc' = [tpc EXCEPT ![i] = "raised"]
    /\ UNCHANGED << orchVars, warnings, proxy, proxy_calls, http_requests, body, scored >>

\* Mutant of Respond: every 2xx status is read on.
RespondAny2xx(i) ==
    /\ pc = "gather" /\ tpc[i] = "await_response"
    /\ \E st \in Statuses :
        /\ response' = [response EXCEPT ![i] = [@ EXCEPT !.status = st]]
        /\ IF st \notin 200..299
           THEN /\ warnings' = warnings \cup {i}
                /\ session' = [session EXCEPT ![i] = "closed"]
                /\ tpc' = [tpc EXCEPT ![i] = "returned"]
           ELSE /\ tpc' = [tpc EXCEPT ![i] = "await_text"]
                /\ UNCHANGED << warnings, session >>
    /\ UNCHANGED << orchVars, proxy, proxy_calls, http_requests, body, scored, task_exc >>

\* lines 70-74: a response arrives; any status but 200 is logged and ends the
\* task with [].
Respond(i) ==
    /\ pc = "gather" /\ tpc[i] = "await_response"
    /\ \E st \in Statuses :
        /\ response' = [response EXCEPT ![i] = [@ EXCEPT !.status = st]]
        /\ IF st # 200
           THEN /\ warnings' = warnings \cup {i}
                /\ session' = [session EXCEPT ![i] = "closed"]
                /\ tpc' = [tpc EXCEPT ![i] = "returned"]
           ELSE /\ tpc' = [tpc EXCEPT ![i] = "await_text"]
                /\ UNCHANGED << warnings, session >>
    /\ UNCHANGED << orchVars, proxy, proxy_calls, http_requests, body, scored, task_exc >>

\* line 75, reading the body fails.
ReadFails(i) ==
    /\ pc = "gather" /\ tpc[i] = "await_text"
    /\ response' = [response EXCEPT ![i] = [@ EXCEPT !.read_error = TRUE]]
    /\ session' = [session EXCEPT ![i] = "closed"]
    /\ task_exc' = [task_exc EXCEPT ![i] = "ClientError"]
    /\ tpc' = [tpc EXCEPT ![i] = "raised"]
    /\ UNCHANGED << orchVars, warnings, proxy, proxy_calls, http_requests, body, scored >>

\* Mutant of ReadText: the feed is parsed and scored inside the `async with`
\* block, with the session still open.
ReadTextSessionOpen(i) ==
    /\ pc = "gather" /\ tpc[i] = "await_text"
    /\ \E b \in Bodies :
        /\ body' = [body EXCEPT ![i] = b]
        /\ tpc' = [tpc EXCEPT ![i] = IF b = <<>> THEN "returned" ELSE "scoring"]
    /\ UNCHANGED << orchVars, warnings, proxy, proxy_calls, http_requests, response,
                    scored, task_exc, session >>

\* lines 75-79: the body is read, the session is closed, the feed is parsed and
\* one entry task per entry goes to the inner gather. A feed without entries
\* returns [] at once.
ReadText(i) ==
    /\ pc = "gather" /\ tpc[i] = "await_text"
    /\ \E b \in Bodies :
        /\ body' = [body EXCEPT ![i] = b]
        /\ tpc' = [tpc EXCEPT ![i] = IF b = <<>> THEN "returned" ELSE "scoring"]
    /\ session' = [session EXCEPT ![i] = "closed"]
    /\ UNCHANGED << orchVars, warnings, proxy, proxy_calls, http_requests, response,
                    scored, task_exc >>

\* lines 77-79 and 27-53: the next entry task runs, sampling the clock; parse_one_feed
\* calls it without a method. An entry that raises ends the inner gather, and the
\* task, with its exception; after the last entry the task returns the results.
ScoreEntry(i) ==
    /\ pc = "gather" /\ tpc[i] = "scoring"
    /\ LET k == Len(scored[i]) + 1
           entry == body[i][k]
       IN  IF EntryRaises(entry)
           THEN /\ task_exc' = [task_exc EXCEPT ![i] = "KeyError"]
                /\ tpc' = [tpc EXCEPT ![i] = "raised"]
                /\ UNCHANGED scored
           ELSE /\ scored' = [scored EXCEPT ![i] =
                        Append(@, process_one_entry(entry, query, DefaultMethod, now))]
                /\ tpc' = [tpc EXCEPT ![i] =
                        IF k = Len(body[i]) THEN "returned" ELSE "scoring"]
                /\ UNCHANGED task_exc
    /\ UNCHANGED << orchVars, warnings, proxy, proxy_calls, http_requests, session,
                    response, body >>

\* The clock moves on while tasks run; only process_one_entry reads it, so its
\* moves after the last task has ended are left out.
Tick ==
    /\ pc = "gather"
    /\ \E i \in Tasks : ~Finished(i)
    /\ now < StartTime + MaxTicks
    /\ now' = now + 1
    /\ UNCHANGED << mode, actor_input, pc, status_message, warnings, taskVars, endVars >>

Next ==
    \/ GetInput
    \/ ParseArgs
    \/ SetStatusParsing
    \/ SpawnTasks
    \/ GatherReturn
    \/ GatherRaise
    \/ SetStatusProcessing
    \/ ProcessResults
    \/ PushData
    \/ PrintResults
    \/ Teardown
    \/ Tick
    \/ \E i \in Tasks : AcquireProxy(i)
    \/ \E i \in Tasks : Request(i)
    \/ \E i \in Tasks : RequestFails(i)
    \/ \E i \in Tasks : Respond(i)
    \/ \E i \in Tasks : ReadFails(i)
    \/ \E i \in Tasks : ReadText(i)
    \/ \E i \in Tasks : ScoreEntry(i)

Spec == Init /\ [][Next]_vars

\* The same program on feed lists one longer.
SpecBatch == InitBatch /\ [][Next]_vars

\* The runs whose input names a matching strategy.
SpecMethod == InitMethod /\ [][Next]_vars

\* ================================================================ claims
AfterGather == pc \notin {"start", "set_status_parsing", "spawn", "gather"}
RanOk == pc = "done" /\ outcome = "ok"

\* C1: a parse_one_feed task whose HTTP request fails at network level returns
\* the empty sequence, and the run does not end with that failure: when the run
\* is over, every such task has returned [] and the outcome is not its exception.
C1_NetworkFailureIsSoft ==
    pc = "done" =>
        \A i \in Tasks :
            response[i].error =>
                /\ tpc[i] = "returned"
                /\ scored[i] = <<>>
                /\ outcome # "ClientError"

\* C2: in a run of two or more feeds where one feed answered with a non-2xx
\* status and another feed returned entries, the failing feed contributes no
\* entries, a warning is logged for it, and the run ends without an error.
Non2xx(i) == response[i].status # 0 /\ response[i].status \notin 200..299
SucceedsWithEntries(j) == response[j].status = 200 /\ tpc[j] = "returned" /\ scored[j] # <<>>

C2_Non2xxFeedIsSoft ==
    pc = "done" =>
        \A i \in Tasks :
            (Non2xx(i) /\ \E j \in Tasks \ {i} : SucceedsWithEntries(j)) =>
                /\ i \in warnings
                /\ scored[i] = <<>>
                /\ outcome = "ok"

\* C3: control leaves the gather, and the run produces its ranking or its
\* error, only after every fetch task has finished; no task is cancelled or
\* left pending because another one failed.
C3_GatherIsBarrier ==
    AfterGather => \A i \in Tasks : Finished(i)

\* The state has a ranking: process_results has returned one.
HasRanking == pc \in {"push", "print"} \/ RanOk
Flat == Flatten(results)

\* What the tasks would return with every entry scored at the second the run
\* started: the run in which the clock does not move.
ReferenceResults ==
    [ i \in Tasks |->
        [ k \in DOMAIN body[i] |->
            process_one_entry(body[i][k], query, DefaultMethod, StartTime) ] ]

ReferenceRanked == process_results(ReferenceResults, top_n, recency_exponent, sort_kind)

\* A record without its recency_score.
WithoutRecency(rows) ==
    [ i \in DOMAIN rows |->
        [ title |-> rows[i].title, link |-> rows[i].link, text |-> rows[i].text,
          title_score |-> rows[i].title_score,
          description_score |-> rows[i].description_score,
          score |-> rows[i].score ] ]

\* C4 (as claimed): for fixed inputs and feed responses the ranked output, its
\* records and their scores, is the same under every interleaving of the fetch
\* tasks, also with recency_exponent > 0 and the clock sampled per entry: every
\* run that ranks produces what the run with a standing clock produces.
C4_OutputSameUnderEverySchedule ==
    HasRanking => ranked = ReferenceRanked

\* C4 (amended): with recency_exponent = 0 the ranked output is the same under
\* every interleaving in the order of its records and in every field but
\* recency_score.
C4_OutputSameWithoutRecency ==
    (HasRanking /\ recency_exponent = 0) =>
        WithoutRecency(ranked) = WithoutRecency(ReferenceRanked)

\* C4 witness: a ranking of two or more records at exponent 0 made from entries
\* that were scored at other seconds than the reference run's.
C4_Witness ==
    /\ RanOk /\ recency_exponent = 0
    /\ Len(ranked) >= 2
    /\ results # ReferenceResults
    /\ \E i, j \in Tasks : i # j /\ results[i] # <<>> /\ results[j] # <<>>

\* C5: process_results returns the same ordered output for every permutation of
\* the sequence of scored entries, also when entries have equal scores.
Permuted(flat, f) == [ i \in DOMAIN flat |-> flat[f[i]] ]

C5_RankIgnoresInputOrder ==
    HasRanking =>
        \A f \in Permutations(DOMAIN Flat) :
            rank(Permuted(Flat, f), top_n, recency_exponent, sort_kind) = ranked

\* C6 (as claimed): for every non-empty sequence and every top_n, the number of
\* records returned is min(top_n, number of entries).
C6_LengthIsMin ==
    HasRanking => Len(ranked) = Min(top_n, Len(Flat))

\* C6 (amended): the same for every top_n >= 0.
C6_LengthIsMinFromZero ==
    (HasRanking /\ top_n >= 0) => Len(ranked) = Min(top_n, Len(Flat))

\* C6 witness: a top_n below the number of entries has cut the ranking.
C6_Witness ==
    HasRanking /\ top_n >= 1 /\ top_n < Len(Flat) /\ Len(ranked) = top_n

\* C7: top_n is clamped into [0, number of entries]: top_n <= 0 gives no record,
\* top_n above the count gives all entries.
C7_TopNIsClamped ==
    HasRanking => Len(ranked) = Min(Max(top_n, 0), Len(Flat))

\* C8: the output is sorted by score descending, and no entry left out of it has
\* a score strictly greater than an entry in it.
Count(rows, r) == Cardinality({ i \in DOMAIN rows : rows[i] = r })
AllRows == [ i \in DOMAIN Flat |-> WithScore(Flat[i], recency_exponent) ]

C8_SortedDescending ==
    HasRanking =>
        LET all == AllRows
            leftOut(r) == Count(ranked, r) < Count(all, r)
        IN  /\ \A i \in 1 .. Len(ranked) - 1 :
                    ~FracGt(ranked[i + 1].score, ranked[i].score)
            /\ \A i \in DOMAIN all :
                    leftOut(all[i]) =>
                        \A j \in DOMAIN ranked : ~FracGt(all[i].score, ranked[j].score)

\* C8 witness: a ranking of two records with different scores, with an entry
\* left out, whose best record did not come first in the input.
C8_Witness ==
    /\ HasRanking
    /\ Len(ranked) >= 2 /\ Len(ranked) < Len(Flat)
    /\ FracGt(ranked[1].score, ranked[2].score)
    /\ Flat[1].link # ranked[1].link

\* C9: when every fetch task has completed and the flattened sequence is empty,
\* the run ends with the "No results found" error and nothing reaches the sink.
GatherReturned ==
    /\ AfterGather
    /\ outcome \notin {"SystemExit", "TypeError"}
    /\ \A i \in Tasks : tpc[i] = "returned"

C9_EmptyIsFatal ==
    (GatherReturned /\ Flatten([i \in Tasks |-> scored[i]]) = <<>>) =>
        /\ pushed = <<>> /\ printed = <<>>
        /\ pc = "done" => outcome = "ValueError"

\* C9 witness: a run of two feeds, one answering 404 and one with an empty
\* body, has ended with that error.
C9_Witness ==
    /\ pc = "done" /\ outcome = "ValueError"
    /\ \E i, j \in Tasks : Non2xx(i) /\ response[j].status = 200

\* C10: a job input without a query, or with an empty feed list, is rejected
\* before any network activity: no proxy request and no HTTP request is made,
\* and the run does not end well.
C10_RejectedBeforeNetwork ==
    ("query" \notin actor_input.keys \/ feeds = <<>>) =>
        /\ \A i \in Tasks : proxy_calls[i] = 0 /\ http_requests[i] = 0
        /\ pc = "done" => outcome # "ok"

LacksPublished(i) ==
    \E k \in DOMAIN body[i] : "published_parsed" \notin body[i][k].keys

\* C12: an entry with no published time does not crash the fetcher: the task
\* of its feed does not raise, and the run does not end with that entry's error.
C12_MissingPublishedIsHarmless ==
    \A i \in Tasks :
        LacksPublished(i) => (tpc[i] # "raised" /\ outcome # "KeyError")

\* C13: title_score and description_score of every scored entry are computed with
\* the strategy the run's method input names (token_set_ratio for
\* "token_set_ratio" and by default, ratio for any other name).
C13_ScoresUseNamedMethod ==
    \A i \in Tasks : \A k \in DOMAIN scored[i] :
        /\ scored[i][k].title_score = match_func(method, query, body[i][k].title)
        /\ scored[i][k].description_score =
               match_func(method, query, get_text(body[i][k].description))

\* The proxy is enabled for the fetch calls of main and disabled for local_test.
ProxyEnabled == mode = "main"

\* C14: with the proxy enabled a fetch call asks the proxy collaborator for a URL
\* exactly once, before its single HTTP request, and sends the request through
\* the URL it was given itself, which no other task uses; with the proxy
\* disabled the collaborator is never called.
C14_ProxyOncePerFetch ==
    \A i \in Tasks :
        /\ proxy_calls[i] <= 1 /\ http_requests[i] <= 1
        /\ ~ProxyEnabled => (proxy_calls[i] = 0 /\ proxy[i] = None)
        /\ (ProxyEnabled /\ (http_requests[i] = 1 \/ Finished(i))) =>
               (proxy_calls[i] = 1 /\ proxy[i] = new_url(i))
        /\ \A j \in Tasks \ {i} :
               (ProxyEnabled /\ http_requests[i] = 1 /\ http_requests[j] = 1) =>
                   proxy[i] # proxy[j]

\* C14 witness: two fetch calls of main have both sent their request.
C14_Witness ==
    /\ ProxyEnabled /\ Cardinality(Tasks) >= 2
    /\ \A i \in Tasks : http_requests[i] = 1 /\ proxy_calls[i] = 1

\* The published time of the entry the k-th scored result of task i was made
\* from. It was scored at a second between StartTime and now.
PublishedOf(i, k) == body[i][k].published_parsed

\* C15: every scored result has recency_score <= 1, also when the entry was
\* published later than the second it is scored at.
C15_RecencyAtMostOne ==
    \A i \in Tasks : \A k \in DOMAIN scored[i] :
        ~FracGt(scored[i][k].recency_score, FracOfInt(1))

\* C15 as amended: recency_score is published / current second, so it is at most
\* 1 when the entry was published no later than the run started, and above 1
\* when it was published later than the clock shows now.
C15_RecencyAtMostOneForPast ==
    \A i \in Tasks : \A k \in DOMAIN scored[i] :
        /\ PublishedOf(i, k) <= StartTime =>
               ~FracGt(scored[i][k].recency_score, FracOfInt(1))
        /\ PublishedOf(i, k) > now =>
               FracGt(scored[i][k].recency_score, FracOfInt(1))

\* C15 witness: an entry published in the past and one published in the future
\* have been scored.
C15_Witness ==
    \E i, j \in Tasks : \E k \in DOMAIN scored[i], l \in DOMAIN scored[j] :
        /\ PublishedOf(i, k) <= StartTime
        /\ PublishedOf(j, l) > now

\* A response has arrived for task i.
Responded(i) == response[i].status # 0

\* C16: the body is parsed and scored if and only if the status is 2xx: every 2xx
\* response is read on, every other one ends the task with a warning and [].
C16_ParsedIffStatus2xx ==
    \A i \in Tasks :
        Responded(i) => ((response[i].status \in 200..299) <=> (i \notin warnings))

\* C16 as amended: the body is read, parsed and scored if and only if the status
\* is 200; any other status, 2xx or not, ends the task with a warning and [],
\* and a task that returns after status 200 has scored every entry of the body.
C16_ParsedIffStatus200 ==
    \A i \in Tasks :
        Responded(i) =>
            /\ (response[i].status = 200) <=> (i \notin warnings)
            /\ response[i].status # 200 =>
                   (tpc[i] = "returned" /\ body[i] = <<>> /\ scored[i] = <<>>)
            /\ (response[i].status = 200 /\ tpc[i] = "returned") =>
                   Len(scored[i]) = Len(body[i])

\* C16 witness: one feed answered with a 2xx status other than 200 and returned
\* nothing, another answered 200 and returned its scored entries.
C16_Witness ==
    \E i, j \in Tasks :
        /\ response[i].status \in 201..299 /\ tpc[i] = "returned" /\ scored[i] = <<>>
        /\ response[j].status = 200 /\ tpc[j] = "returned" /\ Len(scored[j]) >= 2

AllReturned == \A i \in Tasks : tpc[i] = "returned"
ParsingSet == Len(status_message) >= 1 /\ status_message[1] = "Parsing feeds"
ProcessingSet ==
    status_message = << "Parsing feeds", "Processing results" >>

\* C17: in main, push_data is called at most once, only after every fetch task
\* has completed and process_results has returned a non-empty ranking; "Parsing
\* feeds" is set before any task starts, "Processing results" after all tasks
\* have completed and before push_data.
C17_PushOnceAfterNonEmptyRanking ==
    mode = "main" =>
        /\ Len(pushed) <= 1
        /\ pushed # <<>> =>
               (AllReturned /\ ProcessingSet /\ pushed[1] = ranked /\ ranked # <<>>)
        /\ Tasks # {} => ParsingSet
        /\ Len(status_message) >= 2 => (AllReturned /\ ProcessingSet)

\* C17 as amended: as above, but what process_results has returned before
\* push_data is the ranking of a non-empty flattened sequence; the ranking
\* itself may be empty.
C17_PushOnceAfterRanking ==
    mode = "main" =>
        /\ Len(pushed) <= 1
        /\ pushed # <<>> =>
               (AllReturned /\ ProcessingSet /\ pushed[1] = ranked /\ Flat # <<>>)
        /\ Tasks # {} => ParsingSet
        /\ Len(status_message) >= 2 => (AllReturned /\ ProcessingSet)
        /\ pc \in {"process", "push"} => (ProcessingSet /\ pushed = <<>>)

\* C17 witness: main has pushed a ranking, of two feeds; and a run in which it
\* pushed an empty one.
C17_Witness ==
    /\ mode = "main" /\ Len(pushed) = 1 /\ Cardinality(Tasks) >= 2
    /\ pushed[1] # <<>>

C17_WitnessEmptyRanking ==
    mode = "main" /\ pushed = << <<>> >>

\* C18: a fetch task opens one HTTP session, with its one request, and never a
\* second; the session is closed when the task has ended, whether it returned
\* after status 200, returned early on another status, raised during the request
\* or the body read, or was cancelled; entries are scored only with the session
\* closed.
C18_SessionClosedOnEveryExit ==
    \A i \in Tasks :
        /\ http_requests[i] <= 1
        /\ (session[i] = "none") <=> (http_requests[i] = 0)
        /\ session[i] = "open" => tpc[i] \in {"await_response", "await_text"}
        /\ Finished(i) => session[i] = "closed"
        /\ tpc[i] = "cancelled" => session[i] \in {"none", "closed"}
        /\ (tpc[i] = "scoring" \/ scored[i] # <<>>) => session[i] = "closed"

\* C18 witness: one task returned early on status 404 and another raised while
\* the body was read; both sessions were opened and are closed.
C18_Witness ==
    \E i, j \in Tasks :
        /\ response[i].status = 404 /\ tpc[i] = "returned"
        /\ response[j].read_error /\ tpc[j] = "raised"
        /\ http_requests[i] = 1 /\ http_requests[j] = 1
        /\ session[i] = "closed" /\ session[j] = "closed"

\* The links of a sequence of entries or of scored results, in order.
LinksOf(seq) == [k \in DOMAIN seq |-> seq[k].link]

\* C19: the flattened sequence handed to process_results lists the scored entries
\* feed by feed in the order of the feed list, and within a feed in the order of
\* its entries, each entry once, whatever the order the tasks completed in.
C19_FlatInFeedAndEntryOrder ==
    GatherReturned =>
        /\ Len(results) = Len(feeds)
        /\ LinksOf(Flat) = LinksOf(Flatten([i \in Tasks |-> body[i]]))

\* C19 witness: the second feed's task completed at the second the run started,
\* the first feed's task scored its entry one second later; the first feed's
\* entry still comes first.
C19_Witness ==
    /\ GatherReturned /\ Len(results) = 2
    /\ LinksOf(results[1]) = << "c" >>
    /\ results[1][1].recency_score = Frac(4, StartTime + 1)
    /\ LinksOf(results[2]) = << "a", "b" >>
    /\ results[2][2].recency_score = Frac(2, StartTime)
    /\ LinksOf(Flat) = << "c", "a", "b" >>

====
